---------------------------- MODULE Spec2Model ----------------------------
(***************************************************************************)
(* Model of court-cal-agent/gcalcli_wrapper.py: the audited gcalcli        *)
(* wrapper (command parser, audit store, executor, main).                  *)
(*                                                                         *)
(* Text is modelled as a sequence of one-character strings, so that the    *)
(* space-join of the argument list and the regular-expression searches of  *)
(* the parser are computed character by character, as the code does.       *)
(* An optional value (Python None or a value) is a sequence of length 0    *)
(* or 1: None == << >>, Some(x) == <<x>>.                                  *)
(***************************************************************************)
EXTENDS Integers, Sequences, FiniteSets, TLC

(***************************************************************************)
(* String literals of the source and of the inputs.                        *)
(***************************************************************************)
tok_add ==
    <<"a","d","d">>

tok_quick ==
    <<"q","u","i","c","k">>

tok_edit ==
    <<"e","d","i","t">>

tok_delete ==
    <<"d","e","l","e","t","e">>

tok_agenda ==
    <<"a","g","e","n","d","a">>

tok_list ==
    <<"l","i","s","t">>

lit_calendar ==
    <<"-","-","c","a","l","e","n","d","a","r">>

lit_title ==
    <<"-","-","t","i","t","l","e">>

lit_when ==
    <<"-","-","w","h","e","n">>

lit_Court ==
    <<"C","o","u","r","t",":">>

lit_Event ==
    <<"E","v","e","n","t">>

lit_created ==
    <<"c","r","e","a","t","e","d">>

lit_added ==
    <<"a","d","d","e","d">>

lit_Event_created ==
    <<"E","v","e","n","t"," ","c","r","e","a","t","e","d">>

lit_Event_added ==
    <<"E","v","e","n","t"," ","a","d","d","e","d">>

msg_timed_out ==
    <<"C","o","m","m","a","n","d"," ","t","i","m","e","d"," ","o","u","t">>

msg_execution_error ==
    <<"E","x","e","c","u","t","i","o","n"," ","e","r","r","o","r",":"," ">>

msg_no_args ==
    <<"E","r","r","o","r",":"," ","N","o"," ","g","c","a","l","c","l","i"," ","a","r","g","u","m","e","n","t","s"," ","p","r","o","v","i","d","e","d">>

msg_db_initialized ==
    <<"D","a","t","a","b","a","s","e"," ","i","n","i","t","i","a","l","i","z","e","d",":"," ">>

msg_audit_logged ==
    <<"[","A","U","D","I","T","]"," ","L","o","g","g","e","d"," ","t","o"," ">>

arg_sep ==
    <<"-","-">>

arg_Work ==
    <<"W","o","r","k">>

arg_Work_quoted ==
    <<"\"","W","o","r","k","\"">>

arg_from ==
    <<"2","0","2","4","-","0","1","-","0","1">>

arg_to ==
    <<"2","0","2","4","-","0","1","-","3","1">>

arg_title_B ==
    <<"C","o","u","r","t",":"," ","J","a","n","e"," ","D","o","e"," ","-"," ","A","-","2","0","2","4","-","C","R","-","0","0","9","9","-","1">>

arg_title_B_quoted ==
    <<"\"","C","o","u","r","t",":"," ","J","a","n","e"," ","D","o","e"," ","-"," ","A","-","2","0","2","4","-","C","R","-","0","0","9","9","-","1","\"">>

arg_open_quote ==
    <<"\"","J","a","n","e">>

arg_event_id ==
    <<"e","v","t","1">>

val_case_B ==
    <<"A","-","2","0","2","4","-","C","R","-","0","0","9","9","-","1">>

val_defendant_B ==
    <<"J","a","n","e"," ","D","o","e">>

db_path ==
    <<"c","a","l","e","n","d","a","r","_","a","u","d","i","t",".","d","b">>

out_agenda ==
    <<"M","o","n"," ","J","a","n"," ","0","1"," "," ","9",":","0","0","a","m"," "," ","H","e","a","r","i","n","g","\n">>

out_created ==
    <<"E","v","e","n","t"," ","c","r","e","a","t","e","d",":"," ","a","b","c","1","2","3","\n">>

err_tool ==
    <<"I","n","v","a","l","i","d"," ","c","a","l","e","n","d","a","r","\n">>

err_not_found ==
    <<"[","E","r","r","n","o"," ","2","]"," ","N","o"," ","s","u","c","h"," ","f","i","l","e"," ","o","r"," ","d","i","r","e","c","t","o","r","y",":"," ","'","g","c","a","l","c","l","i","'">>

err_db_locked ==
    <<"d","a","t","a","b","a","s","e"," ","i","s"," ","l","o","c","k","e","d">>

err_no_table ==
    <<"n","o"," ","s","u","c","h"," ","t","a","b","l","e",":"," ","c","a","l","e","n","d","a","r","_","a","u","d","i","t">>

(***************************************************************************)
(* Character classes and generic text helpers.                             *)
(***************************************************************************)
DQ ==
    "\""

WhiteSpace ==
    {" ", "\t", "\n"}

Digits ==
    {"0","1","2","3","4","5","6","7","8","9"}

Upper ==
    {"A","B","C","D","E","F","G","H","I","J","K","L","M",
     "N","O","P","Q","R","S","T","U","V","W","X","Y","Z"}

None ==
    << >>

Some(x) ==
    <<x>>

MinOf(S) ==
    CHOOSE m \in S : \A n \in S : m <= n

MaxOf(S) ==
    CHOOSE m \in S : \A n \in S : m >= n

\* args contains the token tok ("tok in args")
Contains(args, tok) ==
    \E i \in 1..Len(args) : args[i] = tok

\* " ".join(args)
RECURSIVE JoinSpace(_)
JoinSpace(args) ==
    IF Len(args) = 0 THEN << >>
    ELSE IF Len(args) = 1 THEN args[1]
    ELSE args[1] \o <<" ">> \o JoinSpace(Tail(args))

\* the literal lit occurs in s at position i
StartsAt(s, i, lit) ==
    /\ i >= 1
    /\ i + Len(lit) - 1 <= Len(s)
    /\ SubSeq(s, i, i + Len(lit) - 1) = lit

\* "lit in s" for strings: substring test
HasSubstring(s, lit) ==
    \E i \in 1..Len(s) : StartsAt(s, i, lit)

\* length of the longest run of characters of cls that starts at position i
RECURSIVE RunIn(_, _, _)
RunIn(s, i, cls) ==
    IF i <= Len(s) /\ s[i] \in cls THEN 1 + RunIn(s, i + 1, cls) ELSE 0

\* length of the longest run of characters outside cls that starts at i
RECURSIVE RunNotIn(_, _, _)
RunNotIn(s, i, cls) ==
    IF i <= Len(s) /\ s[i] \notin cls THEN 1 + RunNotIn(s, i + 1, cls) ELSE 0

\* str.strip(): drop leading and trailing whitespace
Strip(s) ==
    LET keep == {i \in 1..Len(s) : s[i] \notin WhiteSpace}
    IN  IF keep = {} THEN << >> ELSE SubSeq(s, MinOf(keep), MaxOf(keep))

(***************************************************************************)
(* Matching steps.  A position is an index into the text; 0 stands for    *)
(* "no match", and every step passes a failure on.                         *)
(***************************************************************************)
\* the literal lit at position i: the position after it
ExpectLit(s, i, lit) ==
    IF i >= 1 /\ StartsAt(s, i, lit) THEN i + Len(lit) ELSE 0

\* the character ch at position i: the position after it
ExpectChar(s, i, ch) ==
    IF i >= 1 /\ i <= Len(s) /\ s[i] = ch THEN i + 1 ELSE 0

\* one character of cls at position i: the position after it
ExpectIn(s, i, cls) ==
    IF i >= 1 /\ i <= Len(s) /\ s[i] \in cls THEN i + 1 ELSE 0

\* cls+ at position i (greedy): the position after the run
ExpectRun(s, i, cls) ==
    IF i >= 1 /\ RunIn(s, i, cls) >= 1 THEN i + RunIn(s, i, cls) ELSE 0

\* [^cls]+ at position i (greedy): the position after the run
ExpectRunNot(s, i, cls) ==
    IF i >= 1 /\ RunNotIn(s, i, cls) >= 1 THEN i + RunNotIn(s, i, cls) ELSE 0

\* cls* at position i (greedy): the position after the run
SkipRun(s, i, cls) ==
    IF i >= 1 THEN i + RunIn(s, i, cls) ELSE 0

\* the text between two positions, when the match reached its end
Group(s, from, to, end) ==
    IF from >= 1 /\ to >= 1 /\ end >= 1 THEN Some(SubSeq(s, from, to - 1))
    ELSE None

\* re.search: of the matches found at each position, the leftmost one
Leftmost(found) ==
    LET hits == {h \in found : h[2] # None}
    IN  IF hits = {} THEN None
        ELSE (CHOOSE h \in hits : \A g \in hits : h[1] <= g[1])[2]

(***************************************************************************)
(* The regular expressions of the source, each as "match at position i"    *)
(* (the captured group, or None) and re.search = the leftmost match.       *)
(***************************************************************************)
\* the quoted value "([^"]+)" whose first character is at position from
QuotedGroup(s, from, to) ==
    Group(s, from, to, ExpectChar(s, to, DQ))

QuotedValue(s, from) ==
    QuotedGroup(s, from, ExpectRunNot(s, from, {DQ}))

\* lit\s+"([^"]+)" at position i: group 1, or None
MatchQuotedAt(s, i, lit) ==
    QuotedValue(s, ExpectChar(s, ExpectRun(s, ExpectLit(s, i, lit), WhiteSpace), DQ))

\* re.search(r'lit\s+"([^"]+)"', s): group 1 of the leftmost match, or None
SearchQuoted(s, lit) ==
    Leftmost({<<i, MatchQuotedAt(s, i, lit)>> : i \in 1..Len(s)})

\* ([A-Z]-\d+-[A-Z]+-\d+-\d+) at position i: the position after the
\* match; every \d+ and [A-Z]+ is followed by a character outside its class,
\* so the greedy run is the only way to match
CaseEnd(s, i) ==
    ExpectRun(s,
      ExpectChar(s,
        ExpectRun(s,
          ExpectChar(s,
            ExpectRun(s,
              ExpectChar(s,
                ExpectRun(s,
                  ExpectChar(s, ExpectIn(s, i, Upper), "-"),
                  Digits),
                "-"),
              Upper),
            "-"),
          Digits),
        "-"),
      Digits)

CaseGroup(s, i, end) ==
    Group(s, i, end, end)

MatchCaseAt(s, i) ==
    CaseGroup(s, i, CaseEnd(s, i))

\* re.search(r"([A-Z]-\d+-[A-Z]+-\d+-\d+)", s)
SearchCase(s) ==
    Leftmost({<<i, MatchCaseAt(s, i)>> : i \in 1..Len(s)})

\* \s*([^-]+) at position a: \s* is greedy and gives characters back until
\* [^-]+ has at least one character to take
CourtGroup(s, a, ok) ==
    IF a >= 1 /\ ok # {}
    THEN Group(s, a + MaxOf(ok), ExpectRunNot(s, a + MaxOf(ok), {"-"}), 1)
    ELSE None

CourtValue(s, a) ==
    CourtGroup(s, a, {k \in 0..RunIn(s, a, WhiteSpace) :
                        ExpectRunNot(s, a + k, {"-"}) > 0})

\* Court:\s*([^-]+) at position i
MatchCourtAt(s, i) ==
    CourtValue(s, ExpectLit(s, i, lit_Court))

\* re.search(r"Court:\s*([^-]+)", s)
SearchCourt(s) ==
    Leftmost({<<i, MatchCourtAt(s, i)>> : i \in 1..Len(s)})

\* (?:created|added) at position i
ExpectCreatedOrAdded(s, i) ==
    IF ExpectLit(s, i, lit_created) > 0 THEN ExpectLit(s, i, lit_created)
    ELSE ExpectLit(s, i, lit_added)

\* (\S+) at position from
EventIdValue(s, from) ==
    Group(s, from, ExpectRunNot(s, from, WhiteSpace),
          ExpectRunNot(s, from, WhiteSpace))

\* Event\s+(?:created|added):\s*(\S+) at position i
MatchEventIdAt(s, i) ==
    EventIdValue(s,
      SkipRun(s,
        ExpectChar(s,
          ExpectCreatedOrAdded(s,
            ExpectRun(s, ExpectLit(s, i, lit_Event), WhiteSpace)),
          ":"),
        WhiteSpace))

\* re.search(r"Event\s+(?:created|added):\s*(\S+)", s)
SearchEventId(s) ==
    Leftmost({<<i, MatchEventIdAt(s, i)>> : i \in 1..Len(s)})

lit_gcalcli ==
    <<"g","c","a","l","c","l","i">>

lit_json_open ==
    <<"{","\"","a","r","g","s","\"",":"," ","[">>

lit_json_close ==
    <<"]","}">>

lit_json_sep ==
    <<","," ">>

lit_uuid ==
    <<"u","u","i","d","4","-">>

arg_session ==
    <<"b","a","t","c","h","-","7">>

msg_traceback ==
    <<"T","r","a","c","e","b","a","c","k"," ","(","m","o","s","t"," ","r","e","c","e","n","t"," ","c","a","l","l"," ","l","a","s","t",")",":","\n">>

err_cannot_open ==
    <<"u","n","a","b","l","e"," ","t","o"," ","o","p","e","n"," ","d","a","t","a","b","a","s","e"," ","f","i","l","e">>

out_partial ==
    <<"M","o","n"," ","J","a","n"," ","0","1">>

NL ==
    <<"\n">>

(***************************************************************************)
(* GcalcliAuditor._parse_gcalcli_command                                   *)
(***************************************************************************)
\* variant: the delete test placed before the add/quick test
parse_operation_delete_first(args) ==
    IF Contains(args, tok_delete) THEN "delete"
    ELSE IF Contains(args, tok_add) \/ Contains(args, tok_quick) THEN "add"
    ELSE IF Contains(args, tok_edit) THEN "edit"
    ELSE IF Contains(args, tok_agenda) \/ Contains(args, tok_list) THEN "read"
    ELSE "unknown"

\* variant: the agenda/list test placed before the delete test
parse_operation_read_first(args) ==
    IF Contains(args, tok_add) \/ Contains(args, tok_quick) THEN "add"
    ELSE IF Contains(args, tok_edit) THEN "edit"
    ELSE IF Contains(args, tok_agenda) \/ Contains(args, tok_list) THEN "read"
    ELSE IF Contains(args, tok_delete) THEN "delete"
    ELSE "unknown"

\* the if/elif chain that determines the operation
parse_operation(args) ==
    IF Contains(args, tok_add) \/ Contains(args, tok_quick) THEN "add"
    ELSE IF Contains(args, tok_edit) THEN "edit"
    ELSE IF Contains(args, tok_delete) THEN "delete"
    ELSE IF Contains(args, tok_agenda) \/ Contains(args, tok_list) THEN "read"
    ELSE "unknown"

parse_calendar_name(args) ==
    SearchQuoted(JoinSpace(args), lit_calendar)

\* variant: the quick-add branch left out
title_only(args, cmd_str, title_match) ==
    title_match

\* --title "..." first; else, when quick is a token, quick "..."
title_or_quick(args, cmd_str, title_match) ==
    IF title_match # None THEN title_match
    ELSE IF Contains(args, tok_quick) THEN SearchQuoted(cmd_str, tok_quick)
    ELSE None

parse_event_title(args) ==
    title_or_quick(args, JoinSpace(args), SearchQuoted(JoinSpace(args), lit_title))

\* the title is truthy: set and not the empty string
parse_case_number(title) ==
    IF title # None /\ title[1] # << >> THEN SearchCase(title[1]) ELSE None

stripped(defendant_match) ==
    IF defendant_match # None THEN Some(Strip(defendant_match[1])) ELSE None

parse_defendant_name(title) ==
    IF title # None /\ title[1] # << >> THEN stripped(SearchCourt(title[1]))
    ELSE None

parse_event_date(args) ==
    SearchQuoted(JoinSpace(args), lit_when)

\* the details dictionary, given the title found
details_with_title(args, title) ==
    [operation      |-> parse_operation(args),
     calendar_name  |-> parse_calendar_name(args),
     event_title    |-> title,
     event_date     |-> parse_event_date(args),
     case_number    |-> parse_case_number(title),
     defendant_name |-> parse_defendant_name(title)]

parse_gcalcli_command(args) ==
    details_with_title(args, parse_event_title(args))

(***************************************************************************)
(* Audit store: the SQLite file at db_path.  exists: the file exists;      *)
(* table: it holds the calendar_audit table; rows: the table's rows in     *)
(* insertion order; seq: the AUTOINCREMENT counter.                        *)
(***************************************************************************)
\* sqlite3.connect(path): opens the file, creating it when absent
connect(d) ==
    [d EXCEPT !.exists = TRUE]

\* migrations/001_create_audit_table.sql run by executescript: creates the
\* calendar_audit table (the file itself is not part of the sources)
migration_sql(d) ==
    [d EXCEPT !.table = TRUE]

\* CREATE TABLE IF NOT EXISTS calendar_audit (...)
create_audit_table_fallback(d) ==
    [connect(d) EXCEPT !.table = TRUE]

\* _run_migration: the new store and the text printed on standard output
run_migration(d, has_migration_file) ==
    IF has_migration_file
    THEN [db |-> migration_sql(connect(d)),
          printed |-> msg_db_initialized \o db_path \o NL]
    ELSE [db |-> create_audit_table_fallback(d), printed |-> << >>]

\* _init_database: migrate only when the database file does not exist
init_database(d, has_migration_file) ==
    IF ~d.exists THEN run_migration(d, has_migration_file)
    ELSE [db |-> d, printed |-> << >>]

\* json.dumps of one string: quoted, with ", \ and control characters escaped
JsonEscape(c) ==
    IF c = DQ THEN <<"\\", DQ>>
    ELSE IF c = "\\" THEN <<"\\", "\\">>
    ELSE IF c = "\n" THEN <<"\\", "n">>
    ELSE IF c = "\t" THEN <<"\\", "t">>
    ELSE <<c>>

RECURSIVE JsonChars(_)
JsonChars(s) ==
    IF s = << >> THEN << >> ELSE JsonEscape(Head(s)) \o JsonChars(Tail(s))

JsonString(s) ==
    <<DQ>> \o JsonChars(s) \o <<DQ>>

RECURSIVE JsonList(_)
JsonList(args) ==
    IF Len(args) = 0 THEN << >>
    ELSE IF Len(args) = 1 THEN JsonString(args[1])
    ELSE JsonString(args[1]) \o lit_json_sep \o JsonList(Tail(args))

\* json.dumps({"args": args})
json_dumps_args(args) ==
    lit_json_open \o JsonList(args) \o lit_json_close

\* log_command, "Prepare audit record"
record_of(details, args, success, output, error, event_id, session_id, now) ==
    [timestamp      |-> now,
     operation      |-> details.operation,
     command        |-> JoinSpace(args),
     calendar_name  |-> details.calendar_name,
     event_title    |-> details.event_title,
     event_date     |-> details.event_date,
     event_id       |-> event_id,
     case_number    |-> details.case_number,
     defendant_name |-> details.defendant_name,
     success        |-> success,
     error_message  |-> error,
     output         |-> output,
     session_id     |-> session_id,
     metadata       |-> json_dumps_args(args)]

audit_record(args, success, output, error, event_id, session_id, now) ==
    record_of(parse_gcalcli_command(args), args, success, output, error,
              event_id, session_id, now)

\* variant: the INSERT is not committed
insert_row_dropped(d, record) ==
    d

\* variant: the INSERT replaces the content of the table
insert_row_replacing(d, record) ==
    [d EXCEPT !.rows = <<[id |-> d.seq + 1, rec |-> record]>>,
              !.seq  = @ + 1]

\* INSERT INTO calendar_audit: the row gets the next AUTOINCREMENT id
insert_row(d, record) ==
    [d EXCEPT !.rows = Append(@, [id |-> d.seq + 1, rec |-> record]),
              !.seq  = @ + 1]

OperationalError(msg) ==
    Some([type |-> "sqlite3.OperationalError", msg |-> msg])

\* log_command: the store afterwards and the exception raised, if any.
\* env_ok: the storage engine accepts the write (no lock timeout, disk full
\* or permission error); a failed transaction leaves no row.
insert_record(d, record, env_ok) ==
    IF ~env_ok THEN [db |-> d, raised |-> OperationalError(err_db_locked)]
    ELSE IF ~connect(d).table
    THEN [db |-> connect(d), raised |-> OperationalError(err_no_table)]
    ELSE [db |-> insert_row(connect(d), record), raised |-> None]

log_command(d, args, success, output, error, event_id, session_id, now, env_ok) ==
    insert_record(d,
                  audit_record(args, success, output, error, event_id,
                               session_id, now),
                  env_ok)

\* execute_gcalcli_with_audit, "Extract event ID from output if available"
extract_event_id(success, output) ==
    IF success /\ (HasSubstring(output, lit_Event_created)
                     \/ HasSubstring(output, lit_Event_added))
    THEN SearchEventId(output)
    ELSE None

\* variant: the separator is forwarded
strip_separator_kept(a) ==
    a

\* main: "Remove the first '--' if present"
strip_separator(a) ==
    IF Len(a) > 0 /\ a[1] = arg_sep THEN Tail(a) ELSE a

DigitChar(n) ==
    <<"1","2","3","4","5","6","7","8","9">>[n]

\* session_id or str(uuid.uuid4()): a fresh identifier per wrapper process
session_or_uuid(session, n) ==
    IF session # None /\ session[1] # << >> THEN session[1]
    ELSE lit_uuid \o <<DigitChar(n)>>

(***************************************************************************)
(* Bounds and inputs.                                                      *)
(***************************************************************************)
\* wrapper processes that run concurrently on one store (SpecConc)
NumProcs ==
    2

Procs ==
    1..NumProcs

\* wrapper invocations (processes run one after the other) on one store
MaxInvocations ==
    2

\* longest argument list given to the parser in SpecParse
MaxArgs ==
    3

\* subprocess.run(..., timeout=30)
timeout_seconds ==
    30

\* the forwarded argument lists tried end to end (argparse REMAINDER)
ScenarioA ==
    <<tok_agenda, lit_calendar, arg_Work, arg_from, arg_to>>

ScenarioB ==
    <<tok_quick, arg_title_B>>

Argvs ==
    { << >>,
      <<arg_sep>>,
      ScenarioA,
      ScenarioB,
      <<arg_sep, tok_quick, arg_title_B_quoted>> }

\* --session-id: absent or given
SessionArgs ==
    {None, Some(arg_session)}

\* what subprocess.run can do: return a CompletedProcess (kind "exit"),
\* raise TimeoutExpired (kind "timeout") or raise an OSError (kind "oserror",
\* whose message str(e) is carried in the stderr field)
ToolResults ==
    { [kind |-> "exit", returncode |-> 0, stdout |-> out_agenda,  stderr |-> << >>],
      [kind |-> "exit", returncode |-> 0, stdout |-> out_created, stderr |-> err_tool],
      [kind |-> "exit", returncode |-> 2, stdout |-> out_partial, stderr |-> err_tool],
      [kind |-> "timeout", returncode |-> -1, stdout |-> out_partial, stderr |-> << >>],
      [kind |-> "oserror", returncode |-> -1, stdout |-> << >>, stderr |-> err_not_found] }

\* the store before the first invocation: no file, a file without the
\* table, a file with the (empty) table
InitialStores ==
    { [exists |-> FALSE, table |-> FALSE, rows |-> << >>, seq |-> 0],
      [exists |-> TRUE,  table |-> FALSE, rows |-> << >>, seq |-> 0],
      [exists |-> TRUE,  table |-> TRUE,  rows |-> << >>, seq |-> 0] }

\* the tokens the parser is tried on in SpecParse
ParseTokens ==
    { tok_add, tok_quick, tok_edit, tok_delete, tok_agenda, tok_list,
      lit_calendar, arg_Work, arg_Work_quoted, arg_event_id,
      arg_title_B, arg_title_B_quoted, arg_open_quote }

ParseInputs ==
    UNION { [1..n -> ParseTokens] : n \in 0..MaxArgs }

(***************************************************************************)
(* State.                                                                  *)
(***************************************************************************)
VARIABLES
    pc,             \* position of the wrapper process in main
    inv,            \* number of the current invocation
    argv,           \* args.gcalcli_args as argparse returns it
    quiet,          \* args.quiet
    session_arg,    \* args.session_id
    gcalcli_args,   \* args.gcalcli_args after the separator is removed
    migration_file, \* migrations/001_create_audit_table.sql exists
    db,             \* the audit store at db_path
    auditor,        \* the GcalcliAuditor, once constructed: its session_id
    result,         \* what subprocess.run did
    ret,            \* the (success, output, error) triple returned to main
    exc,            \* the exception being handled, or escaped from main
    exit_code,      \* the exit status of the process, once it has exited
    out_stream,     \* text written to standard output
    err_stream,     \* text written to standard error
    clock,          \* datetime.now(), as a count of the records prepared
    launches,       \* history: the subprocess.run calls (command, timeout)
    appends,        \* history: outcome of each log_command call
    db0,            \* history: the store when the invocation started
    p_args,         \* SpecParse: the argument list given to the parser
    p_details,      \* SpecParse: the parser's result
    c_pc,           \* SpecConc: position of each concurrent wrapper process
    c_db,           \* SpecConc: the store file the processes share
    c_migration_file, \* SpecConc: the migration file exists
    c_success,      \* SpecConc: whether each process's tool exited with 0
    cal_pc,         \* SpecCal: position of cal.py's main and of its scripts
    context,        \* SpecCal: the files of the context directory, oldest first
    script_exit,    \* SpecCal: exit status of scripts/fetch_court_data.py
    loaded,         \* SpecCal: the context files main has loaded
    agent,          \* SpecCal: the agent turn
    snapshot,       \* SpecCal: the after-state snapshot
    cal_exit,       \* SpecCal: exit status of cal.py, once it has exited
    failures        \* SpecCal, history: what went wrong so far

wvars ==
    <<pc, inv, argv, quiet, session_arg, gcalcli_args, migration_file, db,
      auditor, result, ret, exc, exit_code, out_stream, err_stream, clock,
      launches, appends, db0>>

pvars ==
    <<p_args, p_details>>

cvars ==
    <<c_pc, c_db, c_migration_file, c_success>>

kvars ==
    <<cal_pc, context, script_exit, loaded, agent, snapshot, cal_exit,
      failures>>

vars ==
    <<wvars, pvars, cvars, kvars>>

\* cal.py has not been started
cal_idle ==
    /\ cal_pc = "idle"
    /\ context = [court_data |-> << >>, before |-> << >>]
    /\ script_exit = None
    /\ loaded = None
    /\ agent = "not_started"
    /\ snapshot = "not_attempted"
    /\ cal_exit = None
    /\ failures = {}

\* the concurrent processes of SpecConc have not been started
conc_idle ==
    /\ c_pc = [p \in Procs |-> "idle"]
    /\ c_db = [exists |-> FALSE, table |-> FALSE, rows |-> << >>, seq |-> 0]
    /\ c_migration_file = FALSE
    /\ c_success = [p \in Procs |-> FALSE]

\* a process that has not started: the state main begins in
fresh_process(a, q, s) ==
    /\ pc' = "main"
    /\ argv' = a
    /\ quiet' = q
    /\ session_arg' = s
    /\ gcalcli_args' = a
    /\ auditor' = None
    /\ result' = None
    /\ ret' = None
    /\ exc' = None
    /\ exit_code' = None
    /\ out_stream' = << >>
    /\ err_stream' = << >>
    /\ launches' = << >>
    /\ appends' = << >>

Init ==
    /\ pc = "main"
    /\ inv = 1
    /\ argv \in Argvs
    /\ quiet \in BOOLEAN
    /\ session_arg \in SessionArgs
    /\ gcalcli_args = argv
    /\ migration_file \in BOOLEAN
    /\ db \in InitialStores
    /\ auditor = None
    /\ result = None
    /\ ret = None
    /\ exc = None
    /\ exit_code = None
    /\ out_stream = << >>
    /\ err_stream = << >>
    /\ clock = 0
    /\ launches = << >>
    /\ appends = << >>
    /\ db0 = db
    /\ p_args = << >>
    /\ p_details = None
    /\ conc_idle
    /\ cal_idle

(***************************************************************************)
(* The wrapper, step by step.                                              *)
(***************************************************************************)
\* an exception leaves main: the interpreter prints the traceback on
\* standard error and the process exits with status 1
uncaught(e) ==
    /\ exc' = e
    /\ exit_code' = Some(1)
    /\ err_stream' = err_stream \o msg_traceback \o e[1].msg \o NL
    /\ pc' = "done"

\* main, up to the usage error
main_args ==
    /\ pc = "main"
    /\ gcalcli_args' = strip_separator(argv)
    /\ IF gcalcli_args' = << >>
       THEN /\ err_stream' = err_stream \o msg_no_args \o NL
            /\ exit_code' = Some(1)
            /\ pc' = "done"
       ELSE /\ pc' = "init"
            /\ UNCHANGED <<err_stream, exit_code>>
    /\ UNCHANGED <<inv, argv, quiet, session_arg, migration_file, db, auditor,
                   result, ret, exc, out_stream, clock, launches, appends,
                   db0, pvars, cvars, kvars>>

\* main: auditor = GcalcliAuditor(args.db_path, args.session_id)
auditor_init ==
    /\ pc = "init"
    /\ \E env_ok \in BOOLEAN :
         IF env_ok \/ db.exists
         THEN /\ db' = init_database(db, migration_file).db
              /\ out_stream' = out_stream \o init_database(db, migration_file).printed
              /\ auditor' = Some(session_or_uuid(session_arg, inv))
              /\ pc' = "exec"
              /\ UNCHANGED <<exc, exit_code, err_stream>>
         ELSE /\ uncaught(OperationalError(err_cannot_open))
              /\ UNCHANGED <<db, out_stream, auditor>>
    /\ UNCHANGED <<inv, argv, quiet, session_arg, gcalcli_args, migration_file,
                   result, ret, clock, launches, appends, db0, pvars, cvars, kvars>>

\* execute_gcalcli_with_audit: subprocess.run(["gcalcli"] + args, timeout=30)
execute_run ==
    /\ pc = "exec"
    /\ \E r \in ToolResults :
         /\ result' = Some(r)
         /\ launches' = Append(launches, [cmd     |-> <<lit_gcalcli>> \o gcalcli_args,
                                          timeout |-> timeout_seconds])
         /\ IF r.kind = "exit"
            THEN pc' = "log" /\ exc' = None
            ELSE IF r.kind = "timeout"
            THEN /\ pc' = "except_timeout"
                 /\ exc' = Some([type |-> "subprocess.TimeoutExpired", msg |-> << >>])
            ELSE /\ pc' = "except_exception"
                 /\ exc' = Some([type |-> "FileNotFoundError", msg |-> r.stderr])
    /\ UNCHANGED <<inv, argv, quiet, session_arg, gcalcli_args, migration_file,
                   db, auditor, ret, exit_code, out_stream, err_stream, clock,
                   appends, db0, pvars, cvars, kvars>>

\* variant: the tool is run again when the append raised
logged_in_try_retry(r, success, output, error) ==
    /\ db' = r.db
    /\ appends' = Append(appends, r.raised = None)
    /\ IF r.raised = None
       THEN /\ ret' = Some([success |-> success, output |-> output,
                            error |-> error])
            /\ pc' = "output"
            /\ UNCHANGED exc
       ELSE /\ pc' = "exec"
            /\ UNCHANGED <<ret, exc>>

\* the try body once log_command has returned or raised (r): return the
\* triple, or enter "except Exception" with the exception log_command raised
logged_in_try(r, success, output, error) ==
    /\ db' = r.db
    /\ appends' = Append(appends, r.raised = None)
    /\ IF r.raised = None
       THEN /\ ret' = Some([success |-> success, output |-> output,
                            error |-> error])
            /\ pc' = "output"
            /\ UNCHANGED exc
       ELSE /\ exc' = r.raised
            /\ pc' = "except_exception"
            /\ UNCHANGED ret

\* variant: error = result.stderr whatever the exit status
try_body_stderr_kept(success, output, stderr, env_ok) ==
    logged_in_try(
        log_command(db, gcalcli_args, success, output, Some(stderr),
                    extract_event_id(success, output),
                    auditor[1], clock + 1, env_ok),
        success, output, Some(stderr))

\* success, output, error and event_id of a completed process
try_body(success, output, stderr, env_ok) ==
    logged_in_try(
        log_command(db, gcalcli_args, success, output,
                    IF ~success THEN Some(stderr) ELSE None,
                    extract_event_id(success, output),
                    auditor[1], clock + 1, env_ok),
        success, output, IF ~success THEN Some(stderr) ELSE None)

\* execute_gcalcli_with_audit, the try body after the tool returned
execute_log ==
    /\ pc = "log"
    /\ \E env_ok \in BOOLEAN :
         try_body(result[1].returncode = 0, result[1].stdout,
                  result[1].stderr, env_ok)
    /\ clock' = clock + 1
    /\ UNCHANGED <<inv, argv, quiet, session_arg, gcalcli_args, migration_file,
                   auditor, result, exit_code, out_stream, err_stream,
                   launches, db0, pvars, cvars, kvars>>

\* a handler of execute_gcalcli_with_audit: log the failure and return it;
\* an exception raised by log_command inside a handler leaves the function
logged_in_handler(r, error) ==
    /\ db' = r.db
    /\ appends' = Append(appends, r.raised = None)
    /\ IF r.raised = None
       THEN /\ ret' = Some([success |-> FALSE, output |-> << >>,
                            error |-> Some(error)])
            /\ exc' = None
            /\ pc' = "output"
            /\ UNCHANGED <<exit_code, err_stream>>
       ELSE /\ uncaught(r.raised)
            /\ UNCHANGED ret

\* variant: the handler logs the tool's own outcome and output
handler_success_kept(error) ==
    /\ \E env_ok \in BOOLEAN :
         logged_in_handler(
             log_command(db, gcalcli_args, result[1].returncode = 0, result[1].stdout,
                         Some(error),
                         extract_event_id(result[1].returncode = 0, result[1].stdout),
                         auditor[1], clock + 1, env_ok),
             error)
    /\ clock' = clock + 1
    /\ UNCHANGED <<inv, argv, quiet, session_arg, gcalcli_args, migration_file,
                   auditor, result, out_stream, launches, db0, pvars, cvars, kvars>>

handler(error) ==
    /\ \E env_ok \in BOOLEAN :
         logged_in_handler(
             log_command(db, gcalcli_args, FALSE, << >>, Some(error), None,
                         auditor[1], clock + 1, env_ok),
             error)
    /\ clock' = clock + 1
    /\ UNCHANGED <<inv, argv, quiet, session_arg, gcalcli_args, migration_file,
                   auditor, result, out_stream, launches, db0, pvars, cvars, kvars>>

\* variant: the timeout handled by the generic handler
except_timeout_generic ==
    /\ pc = "except_timeout"
    /\ handler(msg_execution_error \o exc[1].msg)

\* except subprocess.TimeoutExpired
except_timeout ==
    /\ pc = "except_timeout"
    /\ handler(msg_timed_out)

\* variant: no generic handler, the exception leaves the function
except_exception_reraised ==
    /\ pc = "except_exception"
    /\ uncaught(exc)
    /\ UNCHANGED <<inv, argv, quiet, session_arg, gcalcli_args, migration_file,
                   db, auditor, result, ret, out_stream, clock, launches,
                   appends, db0, pvars, cvars, kvars>>

\* except Exception as e
except_exception ==
    /\ pc = "except_exception"
    /\ handler(msg_execution_error \o exc[1].msg)

\* main, "Print output" to "Exit with same code as gcalcli"
print_and_exit(success, output, error) ==
    /\ out_stream' = IF output # << >> THEN out_stream \o output
                     ELSE out_stream
    /\ err_stream' =
         err_stream
         \o (IF error # None /\ error[1] # << >> /\ ~quiet
             THEN error[1] \o NL ELSE << >>)
         \o (IF ~quiet THEN msg_audit_logged \o db_path \o NL ELSE << >>)
    /\ exit_code' = Some(IF success THEN 0 ELSE 1)

\* main, after execute_gcalcli_with_audit returned
main_output ==
    /\ pc = "output"
    /\ print_and_exit(ret[1].success, ret[1].output, ret[1].error)
    /\ pc' = "done"
    /\ UNCHANGED <<inv, argv, quiet, session_arg, gcalcli_args, migration_file,
                   db, auditor, result, ret, exc, clock, launches, appends,
                   db0, pvars, cvars, kvars>>

\* the next wrapper process is started on the same store, with the same
\* options and another argument list
next_invocation ==
    /\ pc = "done"
    /\ inv < MaxInvocations
    /\ inv' = inv + 1
    /\ \E a \in Argvs : fresh_process(a, quiet, session_arg)
    /\ db0' = db
    /\ UNCHANGED <<migration_file, db, clock, pvars, cvars, kvars>>

Next ==
    \/ main_args
    \/ auditor_init
    \/ execute_run
    \/ execute_log
    \/ except_timeout
    \/ except_exception
    \/ main_output
    \/ next_invocation

Spec ==
    Init /\ [][Next]_vars

(***************************************************************************)
(* The parser alone, on every argument list of at most MaxArgs tokens.     *)
(***************************************************************************)
InitParse ==
    /\ pc = "idle"
    /\ inv = 1
    /\ argv = << >>
    /\ quiet = FALSE
    /\ session_arg = None
    /\ gcalcli_args = << >>
    /\ migration_file = FALSE
    /\ db = [exists |-> FALSE, table |-> FALSE, rows |-> << >>, seq |-> 0]
    /\ auditor = None
    /\ result = None
    /\ ret = None
    /\ exc = None
    /\ exit_code = None
    /\ out_stream = << >>
    /\ err_stream = << >>
    /\ clock = 0
    /\ launches = << >>
    /\ appends = << >>
    /\ db0 = db
    /\ p_args \in ParseInputs
    /\ p_details = None
    /\ conc_idle
    /\ cal_idle

\* details = self._parse_gcalcli_command(args)
parse_step ==
    /\ p_details = None
    /\ p_details' = Some(parse_gcalcli_command(p_args))
    /\ UNCHANGED <<p_args, wvars, cvars, kvars>>

NextParse ==
    parse_step

SpecParse ==
    InitParse /\ [][NextParse]_vars

(***************************************************************************)
(* Concurrent wrapper processes on one store file.  Each process runs      *)
(* main with the same forwarded arguments; a step is what one process does *)
(* between two accesses to the shared file.  The storage engine serialises *)
(* the statements and no write fails for want of a lock.                   *)
(***************************************************************************)
conc_args ==
    ScenarioA

conc_session(p) ==
    session_or_uuid(None, p)

InitConc ==
    /\ pc = "idle"
    /\ inv = 1
    /\ argv = << >>
    /\ quiet = FALSE
    /\ session_arg = None
    /\ gcalcli_args = << >>
    /\ migration_file = FALSE
    /\ db = [exists |-> FALSE, table |-> FALSE, rows |-> << >>, seq |-> 0]
    /\ auditor = None
    /\ result = None
    /\ ret = None
    /\ exc = None
    /\ exit_code = None
    /\ out_stream = << >>
    /\ err_stream = << >>
    /\ clock = 0
    /\ launches = << >>
    /\ appends = << >>
    /\ db0 = db
    /\ p_args = << >>
    /\ p_details = None
    /\ c_pc = [p \in Procs |-> "init"]
    /\ c_db \in {d \in InitialStores : d.exists = d.table}
    /\ c_migration_file \in BOOLEAN
    /\ c_success = [p \in Procs |-> FALSE]
    /\ cal_idle

\* _init_database: if not self.db_path.exists()
conc_exists_check(p) ==
    /\ c_pc[p] = "init"
    /\ c_pc' = [c_pc EXCEPT ![p] = IF c_db.exists THEN "exec" ELSE "migrate"]
    /\ UNCHANGED <<c_db, c_migration_file, c_success, wvars, pvars, kvars>>

\* _run_migration / _create_audit_table_fallback: sqlite3.connect creates
\* the database file
conc_connect(p) ==
    /\ c_pc[p] = "migrate"
    /\ c_db' = connect(c_db)
    /\ c_pc' = [c_pc EXCEPT ![p] = "schema"]
    /\ UNCHANGED <<c_migration_file, c_success, wvars, pvars, kvars>>

\* conn.executescript(migration_sql) or CREATE TABLE IF NOT EXISTS
conc_create_table(p) ==
    /\ c_pc[p] = "schema"
    /\ c_db' = run_migration(c_db, c_migration_file).db
    /\ c_pc' = [c_pc EXCEPT ![p] = "exec"]
    /\ UNCHANGED <<c_migration_file, c_success, wvars, pvars, kvars>>

\* subprocess.run returns with some exit status
conc_execute_run(p) ==
    /\ c_pc[p] = "exec"
    /\ \E ok \in BOOLEAN : c_success' = [c_success EXCEPT ![p] = ok]
    /\ c_pc' = [c_pc EXCEPT ![p] = "log"]
    /\ UNCHANGED <<c_db, c_migration_file, wvars, pvars, kvars>>

conc_logged(p, r, on_raise) ==
    /\ c_db' = r.db
    /\ c_pc' = [c_pc EXCEPT ![p] = IF r.raised = None THEN "done"
                                   ELSE on_raise]
    /\ UNCHANGED <<c_migration_file, c_success, wvars, pvars, kvars>>

\* self.log_command(gcalcli_args, success, output, error, event_id) in the
\* try block
conc_execute_log(p) ==
    /\ c_pc[p] = "log"
    /\ conc_logged(p, log_command(c_db, conc_args, c_success[p], out_agenda,
                                  IF c_success[p] THEN None
                                  ELSE Some(err_tool),
                                  None, conc_session(p), Len(c_db.rows),
                                  TRUE),
                   "handler")

\* except Exception: self.log_command(gcalcli_args, False, "", error); an
\* exception of this call leaves main
conc_except_exception(p) ==
    /\ c_pc[p] = "handler"
    /\ conc_logged(p, log_command(c_db, conc_args, FALSE, << >>,
                                  Some(msg_execution_error \o err_no_table),
                                  None, conc_session(p), Len(c_db.rows),
                                  TRUE),
                   "crashed")

NextConc ==
    \E p \in Procs :
        \/ conc_exists_check(p)
        \/ conc_connect(p)
        \/ conc_create_table(p)
        \/ conc_execute_run(p)
        \/ conc_execute_log(p)
        \/ conc_except_exception(p)

SpecConc ==
    InitConc /\ [][NextConc]_vars

(***************************************************************************)
(* cal.py: main fetches the context with scripts/fetch_court_data.py,      *)
(* loads the most recent context files, runs the agent turn and then takes *)
(* the after-state snapshot.                                               *)
(***************************************************************************)
\* the context directory before the run: empty, or with the files that
\* earlier runs have left (a court_data file cut short is not valid JSON)
CalContexts ==
    { [court_data |-> c, before |-> b] :
        c \in { << >>,
                <<[run |-> "earlier", kind |-> "list"]>>,
                <<[run |-> "earlier", kind |-> "corrupt"]>> },
        b \in { << >>, <<[run |-> "earlier"]>> } }

\* max(files, key=lambda f: f.stat().st_mtime)
latest(files) ==
    files[Len(files)]

InitCal ==
    /\ pc = "idle"
    /\ inv = 1
    /\ argv = << >>
    /\ quiet = FALSE
    /\ session_arg = None
    /\ gcalcli_args = << >>
    /\ migration_file = FALSE
    /\ db = [exists |-> FALSE, table |-> FALSE, rows |-> << >>, seq |-> 0]
    /\ auditor = None
    /\ result = None
    /\ ret = None
    /\ exc = None
    /\ exit_code = None
    /\ out_stream = << >>
    /\ err_stream = << >>
    /\ clock = 0
    /\ launches = << >>
    /\ appends = << >>
    /\ db0 = db
    /\ p_args = << >>
    /\ p_details = None
    /\ conc_idle
    /\ cal_pc = "main"
    /\ context \in CalContexts
    /\ script_exit = None
    /\ loaded = None
    /\ agent = "not_started"
    /\ snapshot = "not_attempted"
    /\ cal_exit = None
    /\ failures = {}

\* sys.exit(1) in a handler of fetch_court_data_and_calendar, or an
\* exception that leaves main: the process exits with status 1
cal_fails(what) ==
    /\ failures' = failures \cup {what}
    /\ cal_exit' = Some(1)
    /\ cal_pc' = "done"

\* fetch_court_data_and_calendar: subprocess.run starts the fetch script,
\* or raises OSError when it cannot be started
run_fetch_script ==
    /\ cal_pc = "main"
    /\ \E started \in BOOLEAN :
         IF started
         THEN cal_pc' = "script_gcalcli" /\ UNCHANGED <<failures, cal_exit>>
         ELSE cal_fails("launch")
    /\ UNCHANGED <<context, script_exit, loaded, agent, snapshot, wvars,
                   pvars, cvars>>

\* scripts/fetch_court_data.py: gcalcli agenda written to before_*.csv; on
\* CalledProcessError the script logs the error and returns, on a missing
\* gcalcli the FileNotFoundError ends the script
fetch_script_before_state ==
    /\ cal_pc = "script_gcalcli"
    /\ \E gcalcli \in {"ok", "error", "not_found"} :
         IF gcalcli = "ok"
         THEN /\ context' = [context EXCEPT
                               !.before = Append(@, [run |-> "this"])]
              /\ cal_pc' = "script_api"
              /\ UNCHANGED <<script_exit, failures>>
         ELSE /\ script_exit' = Some(IF gcalcli = "error" THEN 0 ELSE 1)
              /\ failures' = failures \cup {"gcalcli"}
              /\ cal_pc' = "script_exited"
              /\ UNCHANGED context
    /\ UNCHANGED <<loaded, agent, snapshot, cal_exit, wvars, pvars, cvars>>

\* scripts/fetch_court_data.py: the docket request; the response (a list
\* of settings, or some other JSON value) is written to court_data_*.json
fetch_script_api ==
    /\ cal_pc = "script_api"
    /\ \E response \in {"list", "object", "request_error"} :
         IF response = "request_error"
         THEN /\ script_exit' = Some(1)
              /\ failures' = failures \cup {"api"}
              /\ UNCHANGED context
         ELSE /\ context' = [context EXCEPT
                               !.court_data = Append(@, [run  |-> "this",
                                                         kind |-> response])]
              /\ script_exit' = Some(0)
              /\ UNCHANGED failures
    /\ cal_pc' = "script_exited"
    /\ UNCHANGED <<loaded, agent, snapshot, cal_exit, wvars, pvars, cvars>>

\* subprocess.run(..., check=True) returns, or raises CalledProcessError
fetch_script_returned ==
    /\ cal_pc = "script_exited"
    /\ IF script_exit = Some(0)
       THEN cal_pc' = "glob" /\ UNCHANGED <<failures, cal_exit>>
       ELSE cal_fails("fetch_exit")
    /\ UNCHANGED <<context, script_exit, loaded, agent, snapshot, wvars,
                   pvars, cvars>>

\* context_dir.glob(...); raise FileNotFoundError when a kind is missing
find_context_files ==
    /\ cal_pc = "glob"
    /\ IF context.court_data = << >> \/ context.before = << >>
       THEN cal_fails("no_files")
       ELSE cal_pc' = "load" /\ UNCHANGED <<failures, cal_exit>>
    /\ UNCHANGED <<context, script_exit, loaded, agent, snapshot, wvars,
                   pvars, cvars>>

\* the most recent files are opened and read: OSError, JSONDecodeError or
\* the loaded context
load_context_files ==
    /\ cal_pc = "load"
    /\ \E readable \in BOOLEAN :
         IF ~readable
         THEN cal_fails("os_error") /\ UNCHANGED loaded
         ELSE IF latest(context.court_data).kind = "corrupt"
         THEN cal_fails("json") /\ UNCHANGED loaded
         ELSE /\ loaded' = Some([court_data |-> latest(context.court_data),
                                 before     |-> latest(context.before)])
              /\ cal_pc' = "build"
              /\ UNCHANGED <<failures, cal_exit>>
    /\ UNCHANGED <<context, script_exit, agent, snapshot, wvars, pvars,
                   cvars>>

\* build_instruction_with_context: item.get(...) for item in court_data
\* raises AttributeError when the data is not a list of objects
build_instruction_with_context ==
    /\ cal_pc = "build"
    /\ IF loaded[1].court_data.kind = "list"
       THEN cal_pc' = "agent" /\ UNCHANGED <<failures, cal_exit>>
       ELSE cal_fails("json_shape")
    /\ UNCHANGED <<context, script_exit, loaded, agent, snapshot, wvars,
                   pvars, cvars>>

\* async with fast.run() as agent: await agent.cal_manager.send(...)
agent_send ==
    /\ cal_pc = "agent"
    /\ agent' = "running"
    /\ cal_pc' = "agent_running"
    /\ UNCHANGED <<context, script_exit, loaded, snapshot, cal_exit,
                   failures, wvars, pvars, cvars>>

\* the agent turn ends: send returns, or an exception leaves main
agent_returned ==
    /\ cal_pc = "agent_running"
    /\ \E ok \in BOOLEAN :
         IF ok
         THEN agent' = "finished" /\ cal_pc' = "snapshot" /\ UNCHANGED cal_exit
         ELSE agent' = "raised" /\ cal_exit' = Some(1) /\ cal_pc' = "done"
    /\ UNCHANGED <<context, script_exit, loaded, snapshot, failures, wvars,
                   pvars, cvars>>

\* save_calendar_after_state: CalledProcessError and OSError are printed,
\* main returns and the process exits with status 0
save_calendar_after_state ==
    /\ cal_pc = "snapshot"
    /\ \E outcome \in {"saved", "called_process_error", "os_error"} :
         snapshot' = outcome
    /\ cal_exit' = Some(0)
    /\ cal_pc' = "done"
    /\ UNCHANGED <<context, script_exit, loaded, agent, failures, wvars,
                   pvars, cvars>>

NextCal ==
    \/ run_fetch_script
    \/ fetch_script_before_state
    \/ fetch_script_api
    \/ fetch_script_returned
    \/ find_context_files
    \/ load_context_files
    \/ build_instruction_with_context
    \/ agent_send
    \/ agent_returned
    \/ save_calendar_after_state

SpecCal ==
    InitCal /\ [][NextCal]_vars

(***************************************************************************)
(* Properties.                                                             *)
(***************************************************************************)
\* rows written to the store since the current invocation started
rows_this ==
    Len(db.rows) - Len(db0.rows)

\* the row written last
last_row ==
    db.rows[Len(db.rows)].rec

\* the invocation has forwarded arguments and has got past the usage check
forwarding ==
    gcalcli_args # << >> /\ pc \notin {"main", "idle"}

\* the process has exited through sys.exit at the end of main
exited_normally ==
    pc = "done" /\ forwarding /\ exc = None

\* the tool ran to completion and exited with status 0
tool_exit_zero ==
    result # None /\ result[1].kind = "exit" /\ result[1].returncode = 0

\* some log_command call of this invocation raised
append_raised ==
    \E i \in 1..Len(appends) : ~appends[i]

storage_error_escaped ==
    exc # None /\ exc[1].type = "sqlite3.OperationalError"

\* C1 as stated: every invocation with a non-empty forwarded argument list
\* that has ended has produced exactly one audit row, and none is written
\* before the executor has run.
C1_ExactlyOneRowAlways ==
    /\ (pc = "done" /\ forwarding) => rows_this = 1
    /\ launches = << >> => rows_this = 0

\* C1 amended: an invocation with a non-empty forwarded argument list writes
\* at most one audit row and none before the executor has run; it has written
\* exactly one whenever it exits normally (whatever the executor outcome), and
\* none only when a storage exception left the wrapper.
C1_OneRowUnlessStorageEscapes ==
    /\ rows_this \in {0, 1}
    /\ SubSeq(db.rows, 1, Len(db0.rows)) = db0.rows
    /\ launches = << >> => rows_this = 0
    /\ (forwarding /\ ret # None) => rows_this = 1
    /\ (pc = "done" /\ forwarding /\ rows_this = 0) => storage_error_escaped

C1_Witness ==
    /\ exited_normally
    /\ result[1].kind = "oserror"
    /\ rows_this = 1
    /\ exit_code = Some(1)

\* C2: with an empty forwarded argument list (also when the list is only the
\* "--" separator) the wrapper exits with status 1, the executor is not run
\* and the store is untouched: no file, no schema, no row.
C2_UsageErrorTouchesNothing ==
    argv \in {<< >>, <<arg_sep>>} =>
        /\ pc \in {"main", "done"}
        /\ pc = "done" => exit_code = Some(1)
        /\ launches = << >>
        /\ appends = << >>
        /\ auditor = None
        /\ db = db0

C2_Witness ==
    /\ pc = "done"
    /\ argv = <<arg_sep>>
    /\ exit_code = Some(1)
    /\ ~db.exists
    /\ launches = << >>

\* C3: an invocation with non-empty arguments that terminates normally exits
\* with status 0 if the tool exited with status 0, and with status 1 otherwise.
C3_ExitStatusFollowsTool ==
    exited_normally =>
        exit_code = Some(IF tool_exit_zero THEN 0 ELSE 1)

\* C4: in every audit row, success is true iff the tool of that invocation
\* exited with status 0 (also in a row written after an earlier append attempt
\* of the invocation raised).
C4_SuccessIffExitZero ==
    \A i \in (Len(db0.rows) + 1)..Len(db.rows) :
        db.rows[i].rec.success <=> tool_exit_zero

\* C5: a failed audit append is not absorbed: the executor does not return a
\* tool-failure triple, the wrapper ends with the storage exception and a
\* non-zero status, and a tool run that exited 0 is not recorded as failed.
C5_StorageErrorPropagates ==
    append_raised =>
        /\ ret = None
        /\ pc = "done" => (storage_error_escaped /\ exit_code # Some(0))
        /\ \A i \in (Len(db0.rows) + 1)..Len(db.rows) :
             tool_exit_zero => db.rows[i].rec.success

timed_out ==
    result # None /\ result[1].kind = "timeout"

timeout_triple ==
    [success |-> FALSE, output |-> << >>, error |-> Some(msg_timed_out)]

timeout_row_logged ==
    /\ rows_this = 1
    /\ last_row.success = FALSE
    /\ last_row.error_message = Some(msg_timed_out)
    /\ last_row.output = << >>

\* C6 as stated: after a timeout the executor reports failure with the fixed
\* message and empty output, one row with success=false is logged, and the
\* wrapper exits with status 1.
C6_TimeoutAlwaysLogged ==
    (timed_out /\ pc = "done") =>
        /\ ret = Some(timeout_triple)
        /\ timeout_row_logged
        /\ exit_code = Some(1)

\* C6 amended: after a timeout (of 30 seconds) the wrapper exits with status
\* 1; the executor reports failure with the fixed message "Command timed out"
\* and empty output and the attempt is logged as one row with success=false,
\* unless the append made in the timeout handler raises: then the storage
\* exception leaves the wrapper and no row is written.
C6_TimeoutLoggedUnlessAppendRaises ==
    timed_out =>
        /\ launches = <<[cmd |-> <<lit_gcalcli>> \o gcalcli_args, timeout |-> 30]>>
        /\ pc = "done" => exit_code = Some(1)
        /\ ret # None => (ret = Some(timeout_triple) /\ timeout_row_logged)
        /\ pc = "done" => ret # None \/ (append_raised /\ storage_error_escaped
                                          /\ rows_this = 0)

C6_Witness ==
    /\ timed_out
    /\ pc = "done"
    /\ exit_code = Some(1)
    /\ timeout_row_logged
    /\ ret = Some(timeout_triple)

\* the classification rules in their order
Rules ==
    << [tokens |-> {tok_add, tok_quick},   op |-> "add"],
       [tokens |-> {tok_edit},             op |-> "edit"],
       [tokens |-> {tok_delete},           op |-> "delete"],
       [tokens |-> {tok_agenda, tok_list}, op |-> "read"] >>

\* the rules one of whose tokens is an element of the list
matching_rules(args) ==
    {r \in 1..Len(Rules) : \E j \in 1..Len(args) : args[j] \in Rules[r].tokens}

first_rule(args) ==
    IF matching_rules(args) = {} THEN "unknown"
    ELSE Rules[MinOf(matching_rules(args))].op

\* C7: the operation is that of the first rule, in the order add/quick,
\* edit, delete, agenda/list, one of whose tokens is an element of the
\* argument list, and unknown when there is none.
C7_FirstMatchingRuleWins ==
    p_details # None => p_details[1].operation = first_rule(p_args)

C7_Witness ==
    /\ p_details # None
    /\ Contains(p_args, tok_add)
    /\ Contains(p_args, tok_delete)
    /\ p_details[1].operation = "add"

delete_with_event_id ==
    /\ p_details # None
    /\ Contains(p_args, tok_delete)
    /\ Contains(p_args, arg_event_id)

\* C8 as stated: a list with the token delete and an event identifier is
\* classified delete whatever its other arguments are.
C8_DeleteRegardless ==
    delete_with_event_id => p_details[1].operation = "delete"

\* C8 amended: a list with the token delete and an event identifier is
\* classified delete provided none of the tokens add, quick and edit is an
\* element of the list; its other arguments do not matter.
C8_DeleteUnlessEarlierRule ==
    (/\ delete_with_event_id
     /\ ~Contains(p_args, tok_add)
     /\ ~Contains(p_args, tok_quick)
     /\ ~Contains(p_args, tok_edit))
        => p_details[1].operation = "delete"

C8_Witness ==
    /\ delete_with_event_id
    /\ Contains(p_args, tok_agenda)
    /\ p_details[1].operation = "delete"

\* C9: scenario A, the arguments agenda --calendar Work 2024-01-01 2024-01-31
\* with a tool that exits 0: exit code 0 and one audit row with
\* operation=read, calendar_name=Work, success=true.
C9_ScenarioA ==
    (/\ pc = "done"
     /\ gcalcli_args = ScenarioA
     /\ tool_exit_zero
     /\ appends = <<TRUE>>)
        => /\ exit_code = Some(0)
           /\ rows_this = 1
           /\ last_row.operation = "read"
           /\ last_row.calendar_name = Some(arg_Work)
           /\ last_row.success = TRUE

\* C10: scenario B, the arguments quick "Court: Jane Doe - A-2024-CR-0099-1"
\* (one list element) with a tool that exits 0: one audit row with
\* operation=add, event_title as given, case_number=A-2024-CR-0099-1 and
\* defendant_name=Jane Doe.
C10_ScenarioB ==
    (/\ pc = "done"
     /\ gcalcli_args = ScenarioB
     /\ tool_exit_zero
     /\ appends = <<TRUE>>)
        => /\ rows_this = 1
           /\ last_row.operation = "add"
           /\ last_row.event_title = Some(arg_title_B)
           /\ last_row.case_number = Some(val_case_B)
           /\ last_row.defendant_name = Some(val_defendant_B)

\* a quoted string: a double quote, one or more other characters, a double
\* quote
is_quoted(v) ==
    /\ Len(v) >= 3
    /\ v[1] = DQ
    /\ v[Len(v)] = DQ
    /\ \A i \in 2..(Len(v) - 1) : v[i] # DQ

unquote(v) ==
    SubSeq(v, 2, Len(v) - 1)

\* the argument list reads quick "<text>": the token quick, then arguments
\* that joined by spaces are one quoted string
quick_form(args) ==
    /\ Len(args) >= 2
    /\ args[1] = tok_quick
    /\ is_quoted(JoinSpace(Tail(args)))

has_quoted_value(args, i) ==
    i < Len(args) /\ is_quoted(args[i + 1])

calendar_flags(args) ==
    {i \in 1..Len(args) : args[i] = lit_calendar}

\* C12: a list containing --calendar "Work" gives calendar_name Work; a list
\* without the flag, or whose flag has a missing or malformed (not quoted)
\* value, leaves calendar_name unset.
C12_CalendarWorkOrUnset ==
    p_details # None =>
        /\ (\E i \in calendar_flags(p_args) :
               i < Len(p_args) /\ p_args[i + 1] = arg_Work_quoted)
              => p_details[1].calendar_name = Some(arg_Work)
        /\ (\A i \in calendar_flags(p_args) : ~has_quoted_value(p_args, i))
              => p_details[1].calendar_name = None

conc_ended(p) ==
    c_pc[p] \in {"done", "crashed"}

conc_has_row(p) ==
    \E i \in 1..Len(c_db.rows) : c_db.rows[i].rec.session_id = conc_session(p)

\* C13: for every interleaving of the initialisation and append steps of
\* concurrent wrapper processes on one store file, each process's invocation
\* ends with its own row present in the table.
C13_EachProcessRowPresent ==
    \A p \in Procs : conc_ended(p) => conc_has_row(p)

\* the tool ran to completion and its outcome was logged at the first attempt
tool_ran_and_logged ==
    result # None /\ result[1].kind = "exit" /\ appends = <<TRUE>>

\* C14: in quiet mode the wrapper adds no output of its own: standard output
\* carries exactly the tool's stdout and nothing is written to standard
\* error, also on the first use of a new database path.
C14_QuietAddsNothing ==
    (exited_normally /\ quiet /\ tool_ran_and_logged)
        => /\ out_stream = result[1].stdout
           /\ err_stream = << >>

\* C15 as stated: without quiet mode, whatever the tool wrote to stderr is
\* on standard error, whether it exited with status 0 or not.
C15_StderrAlwaysEmitted ==
    (exited_normally /\ ~quiet /\ tool_ran_and_logged
       /\ result[1].stderr # << >>)
        => HasSubstring(err_stream, result[1].stderr)

\* what main writes to standard error for the triple it got
emitted_for(error) ==
    (IF error # None /\ error[1] # << >> THEN error[1] \o NL ELSE << >>)
    \o msg_audit_logged \o db_path \o NL

\* C15, amended: without quiet mode standard error carries the error of the
\* returned triple (when not empty) and then the audit line; that error is
\* the tool's stderr when the tool exited with a non-zero status and is
\* unset when it exited with status 0, so the stderr of a successful tool
\* is not emitted.
C15_StderrEmittedWhenUnsuccessful ==
    (exited_normally /\ ~quiet)
        => /\ err_stream = emitted_for(ret[1].error)
           /\ tool_ran_and_logged
                => ret[1].error = IF result[1].returncode # 0
                                  THEN Some(result[1].stderr) ELSE None

C15_Witness ==
    /\ exited_normally /\ ~quiet /\ tool_ran_and_logged
    /\ result[1].returncode = 2
    /\ err_stream = err_tool \o NL \o msg_audit_logged \o db_path \o NL

\* execute_gcalcli_with_audit was entered and the process has ended
executor_ended ==
    launches # << >> /\ pc = "done"

\* C16 as stated: whatever the launch and the steps after it do, the
\* executor returns a triple and no exception escapes.
C16_NeverRaises ==
    executor_ended => (ret # None /\ exc = None)

\* the triple reports a failure: its error is the tool's stderr, the fixed
\* timeout message or an "Execution error: ..." message
failure_triple(t, stderr) ==
    /\ ~t.success
    /\ t.error # None
    /\ \/ t.error[1] = stderr
       \/ t.error[1] = msg_timed_out
       \/ StartsAt(t.error[1], 1, msg_execution_error)

\* C16, amended: for every outcome of the launch (tool not found, OS-level
\* error, timeout, non-zero exit) the executor returns a triple with
\* success=false and the tool's stderr or a diagnostic message as error,
\* unless the audit append made
\* inside an exception handler raises: that storage exception, and no
\* other, escapes from the function.
C16_OnlyHandlerAppendEscapes ==
    executor_ended =>
        IF ret # None
        THEN /\ exc = None
             /\ ~tool_exit_zero => failure_triple(ret[1], result[1].stderr)
        ELSE /\ storage_error_escaped
             /\ ~appends[Len(appends)]
             /\ result[1].kind = "exit" => appends = <<FALSE, FALSE>>

C16_Witness ==
    /\ executor_ended
    /\ result[1].kind = "oserror"
    /\ ret = Some([success |-> FALSE, output |-> << >>,
                   error |-> Some(msg_execution_error \o err_not_found)])

\* the argument list main forwards: argv without a leading "--"
forwarded(a) ==
    IF a # << >> /\ a[1] = arg_sep THEN Tail(a) ELSE a

\* C17: in one invocation the tool is launched at most once, whatever the
\* launch and the audit appends do, and it is launched with exactly the
\* forwarded argument list.
C17_NoRetriesArgsUnchanged ==
    /\ Len(launches) <= 1
    /\ launches # << >>
         => launches[1].cmd = <<lit_gcalcli>> \o forwarded(argv)

C17_Witness ==
    /\ pc = "done"
    /\ appends = <<FALSE, FALSE>>
    /\ Len(launches) = 1
    /\ launches[1].cmd = <<lit_gcalcli>> \o ScenarioB

\* C18: once the auditor has been constructed on a database path (no file,
\* a file without the table, a file with the table) the audit table exists.
C18_InitEnsuresTable ==
    auditor # None => db.table

\* row is the record the executor handed to log_command: the arguments, the
\* session and the (success, output, error) triple t it then returned
row_is_appended_record(row, t) ==
    row.rec = audit_record(gcalcli_args, t.success, t.output, t.error,
                           row.rec.event_id, auditor[1], row.rec.timestamp)

\* rows is old with one row added at the end, under a larger id
one_row_added(old, rows) ==
    /\ Len(rows) = Len(old) + 1
    /\ \A i \in 1..Len(old) : old[i].id < rows[Len(rows)].id

\* a step of the store: the rows already written stay as they are; a
\* successful append adds exactly one row, an initialisation or a failed
\* append adds none
store_step ==
    /\ SubSeq(db'.rows, 1, Len(db.rows)) = db.rows
    /\ IF appends' = Append(appends, TRUE)
       THEN /\ one_row_added(db.rows, db'.rows)
            /\ row_is_appended_record(db'.rows[Len(db'.rows)], ret'[1])
       ELSE db'.rows = db.rows

\* C19: the store is append-only and faithful: every successful append adds
\* exactly one row, equal in its fields to the appended record and with an
\* id above all earlier ones, and no later append or initialisation on the
\* same path alters or drops a row already written.
C19_AppendOnlyFaithful ==
    [][store_step]_vars

C19_Witness ==
    /\ inv = 2
    /\ pc = "done"
    /\ Len(db.rows) = 2
    /\ db.rows[1].id < db.rows[2].id
    /\ db.rows[1].rec.command = JoinSpace(ScenarioA)
    /\ db.rows[2].rec.command = JoinSpace(ScenarioB)

\* the positions of the rows written by the current invocation
rows_of_invocation ==
    (Len(db0.rows) + 1)..Len(db.rows)

\* C20: in every audit row a set event_id implies success=true, and
\* success=true implies that the tool of that invocation exited with
\* status 0; a row written by the second append attempt, made from the
\* exception handler after the first attempt raised, has success=false,
\* empty output and no event_id.
C20_RowFieldsConsistent ==
    /\ \A i \in 1..Len(db.rows) :
         db.rows[i].rec.event_id # None => db.rows[i].rec.success
    /\ \A i \in rows_of_invocation :
         db.rows[i].rec.success => tool_exit_zero
    /\ appends = <<FALSE, TRUE>>
         => /\ ~last_row.success
            /\ last_row.output = << >>
            /\ last_row.event_id = None

C20_Witness ==
    /\ pc = "done"
    /\ appends = <<FALSE, TRUE>>
    /\ tool_exit_zero
    /\ result[1].stdout = out_created
    /\ Len(db.rows) = 2
    /\ db.rows[1].rec.event_id # None
    /\ ~last_row.success

\* C21: the agent turn is started only after the fetch script has exited
\* successfully and a court_data and a before file were loaded; after any
\* fetch, file or JSON failure the agent is not run and the process exits
\* with status 1; the after-state snapshot is attempted only after the
\* agent run has finished, and its failure leaves the exit status 0.
C21_AgentOnlyAfterFetch ==
    /\ agent # "not_started"
         => script_exit = Some(0) /\ loaded # None
    /\ failures # {}
         => /\ agent = "not_started"
            /\ cal_pc = "done" => cal_exit = Some(1)
    /\ snapshot # "not_attempted" => agent = "finished"
    /\ (cal_pc = "done" /\ snapshot \in {"called_process_error", "os_error"})
         => cal_exit = Some(0)

=============================================================================
